---- MODULE Spec2Model ----
(***************************************************************************)
(* The movie catalog service: the five request handlers of                 *)
(* src/routes/movies.py and the request schemas of src/schemas/movies.py,  *)
(* over a relational store (movies, countries, genres, actors, languages). *)
(*                                                                         *)
(* Values: a string that the code inspects (name, country code, URL path)  *)
(* is a sequence of one-character strings; an Optional value is None = <<>>*)
(* or Some(v) = <<v>>; a date is a day number.  A table of reference rows  *)
(* is a sequence, the row id being the index; a row carries the            *)
(* transaction that inserted it (0 once committed, -1 once rolled back).   *)
(***************************************************************************)
EXTENDS Integers, Sequences, FiniteSets, TLC

VARIABLES
    movies,        \* movies table: id -> row
    nextMovieId,   \* the id the next inserted movie gets
    countries,     \* countries table: sequence of [key, txn]
    genres,        \* genres table
    actors,        \* actors table
    languages,     \* languages table
    today,         \* datetime.date.today()
    last,          \* the last request served and its response
    reqs           \* create requests in flight: process -> its position and locals

vars == <<movies, nextMovieId, countries, genres, actors, languages, today, last, reqs>>
store == <<movies, nextMovieId, countries, genres, actors, languages>>
refTables == <<countries, genres, actors, languages>>

----------------------------------------------------------------------------
(* Values *)

None == <<>>
Some(v) == <<v>>

Str1(a) == <<a>>
Str3(a, b, c) == <<a, b, c>>

Min(S) == CHOOSE x \in S : \A y \in S : x <= y
Max(S) == CHOOSE x \in S : \A y \in S : x >= y

\* str.startswith
startswith(s, prefix) ==
    /\ Len(s) >= Len(prefix)
    /\ SubSeq(s, 1, Len(prefix)) = prefix

\* the letters of the alphabet the model's strings are written in
Letters == {"a", "b", "f", "r", "s", "u", "A", "B", "F", "R", "S", "U", "SZ"}

\* str.isalpha: non-empty and every character a letter
isalpha(s) == Len(s) > 0 /\ \A i \in 1..Len(s) : s[i] \in Letters

\* str.upper of one character; "SZ" stands for the one character U+00DF,
\* a letter whose upper case is the two characters "SS"
upper1(c) ==
    CASE c = "a" -> <<"A">>
      [] c = "b" -> <<"B">>
      [] c = "f" -> <<"F">>
      [] c = "r" -> <<"R">>
      [] c = "s" -> <<"S">>
      [] c = "u" -> <<"U">>
      [] c = "SZ" -> <<"S", "S">>
      [] OTHER -> <<c>>

RECURSIVE upper(_)
upper(s) == IF s = <<>> THEN <<>> ELSE upper1(Head(s)) \o upper(Tail(s))

----------------------------------------------------------------------------
(* Request schemas: src/schemas/movies.py *)

ALLOWED_STATUSES == {"Released", "Post Production", "In Production"}

NameMaxLength == 255

\* MovieCreateSchema whose country validator returns the value as sent
MovieCreateSchema_WithoutUpper(raw) ==
    [ok |-> /\ Len(raw.name) <= NameMaxLength
            /\ raw.status \in ALLOWED_STATUSES
            /\ ~(Len(raw.country) # 3 \/ ~isalpha(raw.country)),
     value |-> raw]

\* MovieCreateSchema: name at most 255 characters, status one of the allowed
\* ones, country three letters; the validated country is upper-cased.
\* ok = FALSE is the framework's 422.
MovieCreateSchema(raw) ==
    [ok |-> /\ Len(raw.name) <= NameMaxLength
            /\ raw.status \in ALLOWED_STATUSES
            /\ ~(Len(raw.country) # 3 \/ ~isalpha(raw.country)),
     value |-> [raw EXCEPT !.country = upper(raw.country)]]

\* MovieUpdateSchema followed by .dict(exclude_unset=True): every field is
\* optional, a field sent as null is kept as None, a field not sent is no key
\* of the result.
MovieUpdateSchema(raw) ==
    [ok |-> /\ ("name" \in DOMAIN raw /\ raw["name"] # None
                    => Len(raw["name"][1]) <= NameMaxLength)
            /\ ("status" \in DOMAIN raw /\ raw["status"] # None
                    => raw["status"][1] \in ALLOWED_STATUSES),
     value |-> raw]

\* database.models.MovieStatusEnum(value): the member whose value it is;
\* ok = FALSE is its ValueError.
MovieStatusEnum(value) ==
    CASE value = "Released" -> [ok |-> TRUE, member |-> "RELEASED"]
      [] value = "Post Production" -> [ok |-> TRUE, member |-> "POST_PRODUCTION"]
      [] value = "In Production" -> [ok |-> TRUE, member |-> "IN_PRODUCTION"]
      [] OTHER -> [ok |-> FALSE, member |-> "NONE"]

----------------------------------------------------------------------------
(* Validation: src/routes/movies.py *)

HorizonDays == 365

\* TRUE when no HTTPException(400) is raised
validate_movie_fields_for_create(payload, day) ==
    /\ ~(payload.date > day + HorizonDays)
    /\ ~(payload.score < 0 \/ payload.score > 100)
    /\ ~(payload.budget < 0 \/ payload.revenue < 0)
    /\ ~(payload.status \notin ALLOWED_STATUSES)
    /\ ~(Len(payload.country) # 3 \/ ~isalpha(payload.country))

Present(data, f) == f \in DOMAIN data /\ data[f] # None

\* TRUE when no HTTPException(400) is raised
validate_movie_fields_for_update(data, day) ==
    /\ ~(Present(data, "score") /\ (data["score"][1] < 0 \/ data["score"][1] > 100))
    /\ ~(Present(data, "budget") /\ data["budget"][1] < 0)
    /\ ~(Present(data, "revenue") /\ data["revenue"][1] < 0)
    /\ ~(Present(data, "date") /\ data["date"][1] > day + HorizonDays)
    /\ ~(Present(data, "status") /\ data["status"][1] \notin ALLOWED_STATUSES)

----------------------------------------------------------------------------
(* The store *)

Row(key, t) == [key |-> key, txn |-> t]

\* the rows of a table that transaction t sees: the committed ones and its own
Visible(table, t) == {i \in 1..Len(table) : table[i].txn \in {0, t}}

\* select(Model).where(Model.<key> == key) ... .first(): the row id, 0 for None
Lookup(table, key, t) ==
    LET found == {i \in Visible(table, t) : table[i].key = key}
    IN  IF found = {} THEN 0 ELSE Min(found)

\* The storage layer's uniqueness constraint on a reference table's natural
\* key: inserting a key that a committed row holds is an integrity violation.
UniqueViolation(table, key) ==
    \E i \in 1..Len(table) : table[i].txn = 0 /\ table[i].key = key

\* One turn of a get-or-create loop: lookup, and if absent db.add + flush.
GetOrCreate(table, key, t) ==
    LET i == Lookup(table, key, t)
    IN  IF i # 0 THEN [err |-> FALSE, table |-> table, id |-> i]
        ELSE IF UniqueViolation(table, key)
             THEN [err |-> TRUE, table |-> table, id |-> 0]
             ELSE [err |-> FALSE, table |-> Append(table, Row(key, t)),
                   id |-> Len(table) + 1]

\* for name in names: get-or-create, append to the list
RECURSIVE ResolveAll(_, _, _, _)
ResolveAll(table, names, ids, t) ==
    IF names = <<>> THEN [err |-> FALSE, table |-> table, ids |-> ids]
    ELSE LET r == GetOrCreate(table, Head(names), t)
         IN  IF r.err THEN [err |-> TRUE, table |-> table, ids |-> ids]
             ELSE ResolveAll(r.table, Tail(names), Append(ids, r.id), t)

\* the duplicate query comparing the date a day off
DupExists_DateOffByOne(name, date) ==
    \E id \in DOMAIN movies :
        movies[id].name = Some(name) /\ movies[id].date = Some(date + 1)

\* the duplicate query of create_movie
DupExists(name, date) ==
    \E id \in DOMAIN movies :
        movies[id].name = Some(name) /\ movies[id].date = Some(date)

\* MovieModel(...) of create_movie
NewMovie(movie, status_enum, country, gs, as, ls) ==
    [name |-> Some(movie.name), date |-> Some(movie.date),
     score |-> Some(movie.score), overview |-> Some(movie.overview),
     status |-> Some(status_enum), budget |-> Some(movie.budget),
     revenue |-> Some(movie.revenue), country |-> country,
     genres |-> gs, actors |-> as, languages |-> ls]

\* the value setattr writes for one field of the update
UpdateValue(field, value) ==
    IF field = "status" /\ value # None
    THEN Some(MovieStatusEnum(value[1]).member)
    ELSE value

UpdatableFields ==
    {"name", "date", "score", "overview", "status", "budget", "revenue"}

\* the loop over movie_data.dict() without exclude_unset: a field that was
\* not sent is written as None
ApplyUpdate_WithoutExcludeUnset(row, data) ==
    [f \in DOMAIN row |->
        IF f \in DOMAIN data THEN UpdateValue(f, data[f])
        ELSE IF f \in UpdatableFields THEN None ELSE row[f]]

\* the loop of update_movie over data.items()
ApplyUpdate(row, data) ==
    [f \in DOMAIN row |->
        IF f \in DOMAIN data THEN UpdateValue(f, data[f]) ELSE row[f]]

----------------------------------------------------------------------------
(* Handlers: src/routes/movies.py.  Each action is one request served from *)
(* its first statement to its response.                                    *)

ApiPrefix == <<"/", "a", "p", "i", "/", "v", "1">>

\* _page_url: the request path without a leading "/api/v1", and the query
page_url(path, page, per_page) ==
    [path |-> IF startswith(path, ApiPrefix)
              THEN SubSeq(path, Len(ApiPrefix) + 1, Len(path))
              ELSE path,
     page |-> page, per_page |-> per_page]

\* a // b in the place of ceil(a / b)
ceil_FloorDivision(a, b) == a \div b

\* ceil(a / b)
ceil(a, b) == IF a % b = 0 THEN a \div b ELSE (a \div b) + 1

\* order_by(MovieModel.id): the ids, smallest first
RECURSIVE OrderByIdDesc_Ascending(_)
OrderByIdDesc_Ascending(ids) ==
    IF ids = {} THEN <<>>
    ELSE <<Min(ids)>> \o OrderByIdDesc_Ascending(ids \ {Min(ids)})

\* order_by(MovieModel.id.desc()): the ids, largest first
RECURSIVE OrderByIdDesc(_)
OrderByIdDesc(ids) ==
    IF ids = {} THEN <<>>
    ELSE <<Max(ids)>> \o OrderByIdDesc(ids \ {Max(ids)})

\* .offset(offset).limit(limit)
OffsetLimit(rows, offset, limit) ==
    SubSeq(rows, offset + 1, IF offset + limit < Len(rows) THEN offset + limit ELSE Len(rows))

get_movies(path, page, per_page) ==
    LET total_items == Cardinality(DOMAIN movies)
        offset == (page - 1) * per_page
        found == OffsetLimit(OrderByIdDesc(DOMAIN movies), offset, per_page)
        total_pages == IF total_items # 0 THEN ceil(total_items, per_page) ELSE 0
        req == [page |-> page, per_page |-> per_page]
    IN  /\ last' = IF found = <<>>
                   THEN [op |-> "list", code |-> 404, req |-> req]
                   ELSE [op |-> "list", code |-> 200, req |-> req,
                         movies |-> found,
                         prev_page |-> IF page > 1
                                       THEN Some(page_url(path, page - 1, per_page))
                                       ELSE None,
                         next_page |-> IF page < total_pages
                                       THEN Some(page_url(path, page + 1, per_page))
                                       ELSE None,
                         total_pages |-> total_pages,
                         total_items |-> total_items]
        /\ UNCHANGED <<store, today, reqs>>

\* what create_movie does with a request body: the response code and the
\* store it commits (on an error nothing is committed)
CreateOutcome(raw) ==
    LET s == MovieCreateSchema(raw)
        movie == s.value
        c == GetOrCreate(countries, movie.country, 0)
        g == ResolveAll(genres, movie.genres, <<>>, 0)
        a == ResolveAll(actors, movie.actors, <<>>, 0)
        l == ResolveAll(languages, movie.languages, <<>>, 0)
        status_enum == MovieStatusEnum(movie.status)
        unchanged == [movies |-> movies, nextMovieId |-> nextMovieId,
                      countries |-> countries, genres |-> genres,
                      actors |-> actors, languages |-> languages, id |-> 0]
    IN  IF ~s.ok THEN [code |-> 422] @@ unchanged
        ELSE IF ~validate_movie_fields_for_create(movie, today)
        THEN [code |-> 400] @@ unchanged
        ELSE IF DupExists(movie.name, movie.date)
        THEN [code |-> 409] @@ unchanged
        ELSE IF c.err \/ g.err \/ a.err \/ l.err
        THEN [code |-> 500] @@ unchanged
        ELSE IF ~status_enum.ok
        THEN [code |-> 400] @@ unchanged
        ELSE [code |-> 201, id |-> nextMovieId,
              movies |-> movies @@ (nextMovieId :>
                  NewMovie(movie, status_enum.member, c.id, g.ids, a.ids, l.ids)),
              nextMovieId |-> nextMovieId + 1,
              countries |-> c.table, genres |-> g.table,
              actors |-> a.table, languages |-> l.table]

create_movie(raw, cap) ==
    LET r == CreateOutcome(raw)
    IN  /\ r.code = 201 => nextMovieId <= cap
        /\ movies' = r.movies
        /\ nextMovieId' = r.nextMovieId
        /\ countries' = r.countries
        /\ genres' = r.genres
        /\ actors' = r.actors
        /\ languages' = r.languages
        /\ last' = [op |-> "create", code |-> r.code, id |-> r.id]
        /\ UNCHANGED <<today, reqs>>

get_movie(movie_id) ==
    /\ last' = IF movie_id \notin DOMAIN movies
               THEN [op |-> "get", code |-> 404, id |-> movie_id]
               ELSE [op |-> "get", code |-> 200, id |-> movie_id]
    /\ UNCHANGED <<store, today, reqs>>

\* delete_movie without the commit: the response is sent, the row stays
delete_movie_WithoutCommit(movie_id) ==
    /\ last' = [op |-> "delete",
                code |-> IF movie_id \notin DOMAIN movies THEN 404 ELSE 204,
                id |-> movie_id]
    /\ UNCHANGED <<store, today, reqs>>

delete_movie(movie_id) ==
    /\ IF movie_id \notin DOMAIN movies
       THEN /\ last' = [op |-> "delete", code |-> 404, id |-> movie_id]
            /\ UNCHANGED movies
       ELSE /\ last' = [op |-> "delete", code |-> 204, id |-> movie_id]
            /\ movies' = [id \in DOMAIN movies \ {movie_id} |-> movies[id]]
    /\ UNCHANGED <<nextMovieId, refTables, today, reqs>>

\* update_movie with the fields set, and committed, before they are validated
UpdateOutcome_CommitBeforeValidate(movie_id, raw) ==
    LET s == MovieUpdateSchema(raw)
        data == s.value
    IN  IF ~s.ok THEN [code |-> 422, row |-> None]
        ELSE IF movie_id \notin DOMAIN movies THEN [code |-> 404, row |-> None]
        ELSE IF ~validate_movie_fields_for_update(data, today)
        THEN [code |-> 400, row |-> ApplyUpdate(movies[movie_id], data)]
        ELSE [code |-> 200, row |-> ApplyUpdate(movies[movie_id], data)]

\* the response code of update_movie and the row that is committed for
\* movie_id (the stored row when the request fails)
UpdateOutcome(movie_id, raw) ==
    LET s == MovieUpdateSchema(raw)
        data == s.value
    IN  IF ~s.ok THEN [code |-> 422, row |-> None]
        ELSE IF movie_id \notin DOMAIN movies THEN [code |-> 404, row |-> None]
        ELSE IF ~validate_movie_fields_for_update(data, today)
        THEN [code |-> 400, row |-> movies[movie_id]]
        ELSE IF Present(data, "status") /\ ~MovieStatusEnum(data["status"][1]).ok
        THEN [code |-> 400, row |-> movies[movie_id]]
        ELSE [code |-> 200, row |-> ApplyUpdate(movies[movie_id], data)]

update_movie(movie_id, raw) ==
    LET r == UpdateOutcome(movie_id, raw)
    IN  /\ movies' = IF movie_id \in DOMAIN movies /\ r.row # None
                     THEN [movies EXCEPT ![movie_id] = r.row]
                     ELSE movies
        /\ last' = [op |-> "update", code |-> r.code, id |-> movie_id]
        /\ UNCHANGED <<nextMovieId, refTables, today, reqs>>

\* midnight: datetime.date.today() moves on
NextDay(maxDay) ==
    /\ today < maxDay
    /\ today' = today + 1
    /\ UNCHANGED <<store, last, reqs>>

----------------------------------------------------------------------------
(* Requests *)

NameA == Str1("a")
NameB == Str1("b")
LongName == [i \in 1..(NameMaxLength + 1) |-> "x"]

MoviesPath == <<"/", "m", "o", "v", "i", "e", "s", "/">>
Paths == {MoviesPath, ApiPrefix \o MoviesPath}

\* update bodies: every choice of keys among `fields`, each key with one of
\* its values (None is the JSON null)
RECURSIVE Bodies(_, _)
Bodies(fields, values) ==
    IF fields = {} THEN {<<>>}
    ELSE LET f == CHOOSE x \in fields : TRUE
             rest == Bodies(fields \ {f}, values)
         IN  rest \cup {b @@ (f :> v) : b \in rest, v \in values[f]}

NProcs == 2
Procs == 1..NProcs
Idle == [pc |-> "idle"]

Init ==
    /\ movies = <<>>
    /\ nextMovieId = 1
    /\ countries = <<>>
    /\ genres = <<>>
    /\ actors = <<>>
    /\ languages = <<>>
    /\ today = 0
    /\ last = [op |-> "none", code |-> 0]
    /\ reqs = [p \in Procs |-> Idle]

----------------------------------------------------------------------------
(* Spec: the catalog under sequential create, update, delete and get       *)
(* requests.  The requests that succeed differ in name and date; the       *)
(* requests that fail are invalid in one field each.                       *)

MaxMovies == 2

Ids == 1..(MaxMovies + 1)

BaseCreate ==
    [name |-> NameA, date |-> 0, score |-> 50, overview |-> "o",
     status |-> "Released", budget |-> 0, revenue |-> 0,
     country |-> Str3("u", "s", "a"), genres |-> <<"g">>, actors |-> <<>>,
     languages |-> <<"l">>]

\* the same name and date as BaseCreate, every other field different
OtherCreate ==
    [name |-> NameA, date |-> 0, score |-> 100, overview |-> "p",
     status |-> "In Production", budget |-> 7, revenue |-> 7,
     country |-> Str3("f", "r", "a"), genres |-> <<"h">>, actors |-> <<"x">>,
     languages |-> <<>>]

ValidCreates ==
    {[BaseCreate EXCEPT !.name = n, !.date = d] : n \in {NameA, NameB}, d \in {0, 1}}
        \cup {OtherCreate}

\* BaseCreate and OtherCreate with one field the service rejects
InvalidCreates ==
    UNION {{[b EXCEPT !.score = -1], [b EXCEPT !.score = 101],
            [b EXCEPT !.budget = -1], [b EXCEPT !.revenue = -1],
            [b EXCEPT !.date = HorizonDays + 1],
            [b EXCEPT !.status = "Cancelled"],
            [b EXCEPT !.country = <<"u", "s">>],
            [b EXCEPT !.country = Str3("u", "1", "a")],
            [b EXCEPT !.country = Str3("a", "SZ", "a")],
            [b EXCEPT !.name = LongName]} : b \in {BaseCreate, OtherCreate}}

CatalogCreates == ValidCreates \cup InvalidCreates

ValidUpdates ==
    Bodies({"name", "date"},
           [name |-> {Some(NameA), Some(NameB)},
            date |-> {Some(0), Some(1)}])

\* one field the service rejects, alone or beside a valid change of the name
InvalidUpdates ==
    {b @@ bad : b \in {<<>>, [name |-> Some(NameB)]},
                bad \in {[score |-> Some(-1)], [score |-> Some(101)],
                         [budget |-> Some(-1)], [revenue |-> Some(-1)],
                         [date |-> Some(HorizonDays + 1)],
                         [status |-> Some("Cancelled")]}}

CatalogUpdates == ValidUpdates \cup InvalidUpdates

Next ==
    \/ \E raw \in CatalogCreates : create_movie(raw, MaxMovies)
    \/ \E id \in Ids, raw \in CatalogUpdates : update_movie(id, raw)
    \/ \E id \in Ids : delete_movie(id)
    \/ \E id \in Ids : get_movie(id)

Spec == Init /\ [][Next]_vars

----------------------------------------------------------------------------
(* SpecList: listing a catalog that grows and shrinks *)

MaxListed == 3
MaxPage == 3
MaxPerPage == 2

NextList ==
    \/ \E raw \in ValidCreates : create_movie(raw, MaxListed)
    \/ \E id \in 1..(MaxListed + 1) : delete_movie(id)
    \/ \E path \in Paths, page \in 1..MaxPage, per_page \in 1..MaxPerPage :
          get_movies(path, page, per_page)

SpecList == Init /\ [][NextList]_vars

----------------------------------------------------------------------------
(* SpecFields: one movie under updates of its validated fields, with nulls *)
(* and with the day moving on                                              *)

MaxFieldMovies == 1
MaxDay == 1
MaxKeys == 2

FieldCreates ==
    {[BaseCreate EXCEPT !.date = d, !.score = sc, !.budget = b, !.revenue = r] :
        d \in {HorizonDays, HorizonDays + 1}, sc \in {-1, 0, 100, 101},
        b \in {-1, 0}, r \in {-1, 0}}

\* update bodies of at most MaxKeys keys
FieldUpdates ==
    {b \in Bodies({"score", "budget", "revenue", "date", "status", "name"},
                  [score |-> {Some(-1), Some(0), Some(100), Some(101), None},
                   budget |-> {Some(-1), Some(7), None},
                   revenue |-> {Some(-1), Some(7), None},
                   date |-> {Some(HorizonDays), Some(HorizonDays + 1), None},
                   status |-> {Some("In Production"), None},
                   name |-> {Some(NameB), None}]) :
        Cardinality(DOMAIN b) <= MaxKeys}

NextFields ==
    \/ \E raw \in FieldCreates : create_movie(raw, MaxFieldMovies)
    \/ \E id \in 1..(MaxFieldMovies + 1), raw \in FieldUpdates : update_movie(id, raw)
    \/ \E id \in 1..(MaxFieldMovies + 1) : get_movie(id)
    \/ NextDay(MaxDay)

SpecFields == Init /\ [][NextFields]_vars

----------------------------------------------------------------------------
(* SpecRefs: creates that name new and existing countries, genres, actors  *)
(* and languages                                                           *)

MaxRefMovies == 2

RefBase == [BaseCreate EXCEPT !.actors = <<"x">>]

RefCreates ==
    UNION {{[b EXCEPT !.country = c] :
                c \in {Str3("u", "s", "a"), Str3("U", "S", "A"),
                       Str3("U", "s", "a"), Str3("f", "r", "a")}}
           \cup {[b EXCEPT !.genres = g] :
                    g \in {<<>>, <<"g", "g">>, <<"h", "g">>, <<"g", "h", "g">>}}
           \cup {[b EXCEPT !.actors = a] : a \in {<<"x", "y">>, <<"y", "y">>}}
           \cup {[b EXCEPT !.languages = l] : l \in {<<"l", "m">>, <<"m", "m", "l">>}}
           : b \in {RefBase, [RefBase EXCEPT !.name = NameB]}}

NextRefs ==
    \/ \E raw \in RefCreates : create_movie(raw, MaxRefMovies)
    \/ \E id \in 1..(MaxRefMovies + 1) : delete_movie(id)
    \/ \E id \in 1..(MaxRefMovies + 1) : get_movie(id)

SpecRefs == Init /\ [][NextRefs]_vars

----------------------------------------------------------------------------
(* create_movie step by step: one action per awaited storage call, so that *)
(* the requests of several processes interleave.  A process runs in its    *)
(* own session: it sees the committed rows and the rows it flushed itself. *)

Phases == <<"country", "genres", "actors", "languages">>

\* the keys a request resolves in a phase
KeysOf(movie, phase) ==
    IF phase = 1 THEN <<movie.country>> ELSE movie[Phases[phase]]

\* the position after (phase, i): the next key of the phase, the first key of
\* the next phase that has one, or phase 5 (the commit)
RECURSIVE NextPosition(_, _, _)
NextPosition(movie, phase, i) ==
    IF phase > Len(Phases) THEN [phase |-> phase, i |-> 1]
    ELSE IF i < Len(KeysOf(movie, phase)) THEN [phase |-> phase, i |-> i + 1]
    ELSE IF phase = Len(Phases) THEN [phase |-> phase + 1, i |-> 1]
    ELSE IF KeysOf(movie, phase + 1) # <<>> THEN [phase |-> phase + 1, i |-> 1]
    ELSE NextPosition(movie, phase + 1, 1)

TableOf(phase) ==
    CASE phase = 1 -> countries
      [] phase = 2 -> genres
      [] phase = 3 -> actors
      [] phase = 4 -> languages

\* the tables with the table of `phase` replaced
WithTable(phase, table) ==
    /\ countries' = IF phase = 1 THEN table ELSE countries
    /\ genres' = IF phase = 2 THEN table ELSE genres
    /\ actors' = IF phase = 3 THEN table ELSE actors
    /\ languages' = IF phase = 4 THEN table ELSE languages

\* the rows transaction t flushed, marked committed (0) or rolled back (-1)
EndRows(table, t, mark) ==
    [i \in 1..Len(table) |->
        IF table[i].txn = t THEN [table[i] EXCEPT !.txn = mark] ELSE table[i]]

Done(code, id) == [pc |-> "done", code |-> code, id |-> id]

\* the request with the resolved row appended to the phase's list, at its
\* next position
Resolved(r, id) ==
    LET pos == NextPosition(r.movie, r.phase, r.i)
        f == Phases[r.phase]
    IN  [r EXCEPT !.pc = IF pos.phase > Len(Phases) THEN "commit" ELSE "lookup",
                  !.phase = pos.phase, !.i = pos.i,
                  ![f] = Append(r[f], id)]

\* validation and the duplicate query
create_Start(p, raw) ==
    LET s == MovieCreateSchema(raw)
        movie == s.value
        code == IF ~s.ok THEN 422
                ELSE IF ~validate_movie_fields_for_create(movie, today) THEN 400
                ELSE IF DupExists(movie.name, movie.date) THEN 409
                ELSE 0
    IN  /\ reqs[p].pc = "idle"
        /\ IF code # 0
           THEN /\ reqs' = [reqs EXCEPT ![p] = Done(code, 0)]
                /\ last' = [op |-> "create", code |-> code, id |-> 0]
           ELSE /\ reqs' = [reqs EXCEPT ![p] =
                      [pc |-> "lookup", phase |-> 1, i |-> 1, movie |-> movie,
                       country |-> <<>>, genres |-> <<>>, actors |-> <<>>,
                       languages |-> <<>>]]
                /\ UNCHANGED last
        /\ UNCHANGED <<store, today>>

\* one select by natural key
create_Lookup(p) ==
    LET r == reqs[p]
        found == Lookup(TableOf(r.phase), KeysOf(r.movie, r.phase)[r.i], p)
    IN  /\ r.pc = "lookup"
        /\ reqs' = [reqs EXCEPT ![p] =
                      IF found # 0 THEN Resolved(r, found)
                      ELSE [r EXCEPT !.pc = "insert"]]
        /\ UNCHANGED <<store, today, last>>

\* another open transaction holds a flushed, uncommitted row of this key: the
\* insert waits for it to end
HeldByOther(table, key, p) ==
    \E i \in 1..Len(table) :
        table[i].key = key /\ table[i].txn > 0 /\ table[i].txn # p

\* db.add + flush of the row the select did not find; the integrity error of
\* the storage layer is not caught: the session is rolled back and the request
\* ends as a 500
create_Insert(p) ==
    LET r == reqs[p]
        table == TableOf(r.phase)
        key == KeysOf(r.movie, r.phase)[r.i]
    IN  /\ r.pc = "insert"
        /\ ~HeldByOther(table, key, p)
        /\ IF UniqueViolation(table, key)
           THEN /\ reqs' = [reqs EXCEPT ![p] = Done(500, 0)]
                /\ last' = [op |-> "create", code |-> 500, id |-> 0]
                /\ countries' = EndRows(countries, p, -1)
                /\ genres' = EndRows(genres, p, -1)
                /\ actors' = EndRows(actors, p, -1)
                /\ languages' = EndRows(languages, p, -1)
           ELSE /\ reqs' = [reqs EXCEPT ![p] = Resolved(r, Len(table) + 1)]
                /\ WithTable(r.phase, Append(table, Row(key, p)))
                /\ UNCHANGED last
        /\ UNCHANGED <<movies, nextMovieId, today>>

\* the movie row and the commit
create_Commit(p) ==
    LET r == reqs[p]
        status_enum == MovieStatusEnum(r.movie.status)
    IN  /\ r.pc = "commit"
        /\ IF ~status_enum.ok
           THEN /\ reqs' = [reqs EXCEPT ![p] = Done(400, 0)]
                /\ last' = [op |-> "create", code |-> 400, id |-> 0]
                /\ countries' = EndRows(countries, p, -1)
                /\ genres' = EndRows(genres, p, -1)
                /\ actors' = EndRows(actors, p, -1)
                /\ languages' = EndRows(languages, p, -1)
                /\ UNCHANGED <<movies, nextMovieId>>
           ELSE /\ reqs' = [reqs EXCEPT ![p] = Done(201, nextMovieId)]
                /\ last' = [op |-> "create", code |-> 201, id |-> nextMovieId]
                /\ movies' = movies @@ (nextMovieId :>
                      NewMovie(r.movie, status_enum.member, r.country[1],
                               r.genres, r.actors, r.languages))
                /\ nextMovieId' = nextMovieId + 1
                /\ countries' = EndRows(countries, p, 0)
                /\ genres' = EndRows(genres, p, 0)
                /\ actors' = EndRows(actors, p, 0)
                /\ languages' = EndRows(languages, p, 0)
        /\ UNCHANGED today

----------------------------------------------------------------------------
(* SpecConc: every process sends one create; the requests interleave *)

ConcCreates ==
    {[BaseCreate EXCEPT !.name = n, !.genres = g] :
        n \in {NameA, NameB}, g \in {<<"g">>, <<"g", "h">>}}

NextConc ==
    \/ \E p \in Procs, raw \in ConcCreates \cup {[BaseCreate EXCEPT !.score = 101]} :
          create_Start(p, raw)
    \/ \E p \in Procs : create_Lookup(p)
    \/ \E p \in Procs : create_Insert(p)
    \/ \E p \in Procs : create_Commit(p)

SpecConc == Init /\ [][NextConc]_vars

----------------------------------------------------------------------------
(* Claims checked under Spec *)

\* C1 (as claimed): in every reachable state no two stored movies share both
\* name and release date.
C1_NoTwoMoviesShareNameAndDate ==
    \A i, j \in DOMAIN movies :
        i # j => ~(/\ movies[i].name # None
                   /\ movies[i].date # None
                   /\ movies[i].name = movies[j].name
                   /\ movies[i].date = movies[j].date)

\* a committed row of a reference table
Committed(table, i) == i \in 1..Len(table) /\ table[i].txn = 0

\* every row of `old` is the same row of `new`
Extends(new, old) ==
    Len(new) >= Len(old) /\ \A i \in 1..Len(old) : new[i] = old[i]

Elems(seq) == {seq[i] : i \in 1..Len(seq)}

\* C4: a create or update that fails (400, 404, 409, and also 422 or 500)
\* leaves the whole store unchanged; a create that succeeds adds one movie
\* whose country, genres, actors and languages are all committed rows, the
\* rows that existed before staying as they were.
C4_FailedWriteLeavesStoreUnchanged ==
    [][/\ (last'.op \in {"create", "update"} /\ last'.code \notin {200, 201})
            => UNCHANGED store
       /\ (last'.op = "create" /\ last'.code = 201)
            => /\ DOMAIN movies' = DOMAIN movies \cup {last'.id}
               /\ last'.id \notin DOMAIN movies
               /\ \A id \in DOMAIN movies : movies'[id] = movies[id]
               /\ Committed(countries', movies'[last'.id].country)
               /\ \A g \in Elems(movies'[last'.id].genres) : Committed(genres', g)
               /\ \A a \in Elems(movies'[last'.id].actors) : Committed(actors', a)
               /\ \A l \in Elems(movies'[last'.id].languages) : Committed(languages', l)
               /\ Extends(countries', countries) /\ Extends(genres', genres)
               /\ Extends(actors', actors) /\ Extends(languages', languages)
      ]_vars

\* C4 witness: an update of a stored movie was rejected with 400 after a
\* create had succeeded
C4_Witness ==
    /\ last.op = "update" /\ last.code = 400
    /\ last.id \in DOMAIN movies
    /\ Len(countries) > 0

\* C5 (as claimed): a create that follows a successful create and carries
\* the same name and date (and a body the schema accepts) fails with 409
\* whatever its other fields are, and the number of stored movies does not
\* change.
C5_AnyDuplicateCreateConflicts ==
    [][(last.op = "create" /\ last.code = 201 /\ last'.op = "create")
        => \A raw \in CatalogCreates :
             (/\ create_movie(raw, MaxMovies)
              /\ MovieCreateSchema(raw).ok
              /\ Some(raw.name) = movies[last.id].name
              /\ Some(raw.date) = movies[last.id].date)
             => (/\ last'.code = 409
                 /\ Cardinality(DOMAIN movies') = Cardinality(DOMAIN movies))
      ]_vars

\* the store holds a movie with this name and date
Stored(name, date) ==
    \E id \in DOMAIN movies :
        movies[id].name = Some(name) /\ movies[id].date = Some(date)

\* C5 (amended): while a movie with a given name and date is stored, a create
\* with that name and date whose payload passes validation fails with 409,
\* whatever its other fields are; one whose payload is invalid fails with 400
\* or 422; in both cases the store does not change.
C5_ValidDuplicateCreateConflicts ==
    [][last'.op = "create"
        => \A raw \in CatalogCreates :
             (create_movie(raw, MaxMovies) /\ Stored(raw.name, raw.date))
             => (/\ last'.code = IF raw \in ValidCreates THEN 409
                                 ELSE IF last'.code = 422 THEN 422 ELSE 400
                 /\ UNCHANGED store)
      ]_vars

\* C5 witness: a create was answered 409 while a movie created from the other
\* payload of the same name and date is stored
C5_Witness ==
    /\ last.op = "create" /\ last.code = 409
    /\ \E id \in DOMAIN movies :
         /\ movies[id].name = Some(OtherCreate.name)
         /\ movies[id].date = Some(OtherCreate.date)
         /\ movies[id].score = Some(OtherCreate.score)

\* C7: a successful update of movie m leaves every field absent from the
\* request as it was, m's country, genres, actors and languages included,
\* and leaves every other movie and every reference row as it was.
C7_UpdateChangesOnlySentFields ==
    [][(last'.op = "update" /\ last'.code = 200)
        => /\ \A raw \in CatalogUpdates :
                update_movie(last'.id, raw)
                => \A f \in DOMAIN movies[last'.id] \ DOMAIN raw :
                       movies'[last'.id][f] = movies[last'.id][f]
           /\ DOMAIN movies' = DOMAIN movies
           /\ \A id \in DOMAIN movies \ {last'.id} : movies'[id] = movies[id]
           /\ UNCHANGED <<nextMovieId, refTables>>
      ]_vars

\* C7 witness: an update succeeded while another movie is stored, and the
\* updated movie differs from what any create stores
C7_Witness ==
    /\ last.op = "update" /\ last.code = 200
    /\ Cardinality(DOMAIN movies) >= 2
    /\ movies[last.id].name = Some(NameB)
    /\ movies[last.id].score = Some(OtherCreate.score)

----------------------------------------------------------------------------
(* Claims checked under SpecList *)

TotalItems == Cardinality(DOMAIN movies)

\* the least number of pages of per_page movies that hold the whole catalog
PagesNeeded(per_page) ==
    Min({n \in 0..TotalItems : n * per_page >= TotalItems})

\* the stored id with exactly k - 1 larger stored ids
IdAtPosition(k) ==
    CHOOSE id \in DOMAIN movies :
        Cardinality({other \in DOMAIN movies : other > id}) = k - 1

\* the ids at positions (page-1)*per_page+1 .. page*per_page of the catalog
\* sorted by descending id
ExpectedSlice(page, per_page) ==
    LET first == (page - 1) * per_page + 1
        upto == IF page * per_page < TotalItems THEN page * per_page ELSE TotalItems
    IN  [i \in 1..(upto - first + 1) |-> IdAtPosition(first + i - 1)]

\* C8: list returns exactly the movies at positions (page-1)*per_page+1 ..
\* page*per_page of the catalog sorted by descending id, and answers 404
\* exactly when that slice is empty, that is when the catalog is empty or
\* page exceeds total_pages.
C8_ListReturnsThePageByDescendingId ==
    last.op = "list" =>
        LET expected == ExpectedSlice(last.req.page, last.req.per_page)
        IN  /\ last.code \in {200, 404}
            /\ last.code = 404 <=> expected = <<>>
            /\ expected = <<>> <=> (\/ TotalItems = 0
                                    \/ last.req.page > PagesNeeded(last.req.per_page))
            /\ last.code = 200 => last.movies = expected

\* C8 witness: the second page of one movie each was listed from a catalog
\* of the movies 1 and 3, movie 2 deleted
C8_Witness ==
    /\ last.op = "list" /\ last.code = 200
    /\ last.req.page = 2
    /\ last.movies = <<1>>
    /\ DOMAIN movies = {1, 3}

\* C9: in a successful list response total_items is the number of stored
\* movies, total_pages is ceil(total_items / per_page), prev_page is present
\* exactly when page > 1 and then carries page - 1 and per_page, next_page is
\* present exactly when page < total_pages and then carries page + 1 and
\* per_page, and 1 <= page <= total_pages.
C9_PaginationFieldsAndLinks ==
    (last.op = "list" /\ last.code = 200) =>
        LET page == last.req.page
            per_page == last.req.per_page
        IN  /\ last.total_items = TotalItems
            /\ last.total_pages = PagesNeeded(per_page)
            /\ last.prev_page # None <=> page > 1
            /\ page > 1 => /\ last.prev_page[1].page = page - 1
                           /\ last.prev_page[1].per_page = per_page
            /\ last.next_page # None <=> page < last.total_pages
            /\ page < last.total_pages
                 => /\ last.next_page[1].page = page + 1
                    /\ last.next_page[1].per_page = per_page
            /\ 1 <= page /\ page <= last.total_pages

\* C9 witness: page 2 of 3 was listed, the last page being a partial one when
\* per_page is 2
C9_Witness ==
    /\ last.op = "list" /\ last.code = 200
    /\ last.req.page = 2
    /\ last.prev_page # None /\ last.next_page # None

----------------------------------------------------------------------------
(* Claims checked under SpecFields *)

\* C2 (as claimed): every stored movie has a score in [0, 100], a budget >= 0,
\* a revenue >= 0 and a release date <= today + 365 days.
C2_StoredFieldsInRange ==
    \A id \in DOMAIN movies :
        LET m == movies[id]
        IN  /\ m.score # None /\ m.score[1] >= 0 /\ m.score[1] <= 100
            /\ m.budget # None /\ m.budget[1] >= 0
            /\ m.revenue # None /\ m.revenue[1] >= 0
            /\ m.date # None /\ m.date[1] <= today + HorizonDays

----------------------------------------------------------------------------
(* Claims checked under SpecRefs *)

\* the committed rows of a table
CommittedRows(table) == {i \in 1..Len(table) : table[i].txn = 0}

\* no two committed rows of the table hold the same key: country codes are
\* compared upper-cased (caseFolded), names as they are
OneRowPerKey(table, caseFolded) ==
    \A i, j \in CommittedRows(table) :
        i # j => IF caseFolded THEN upper(table[i].key) # upper(table[j].key)
                 ELSE table[i].key # table[j].key

\* the rows a created movie references hold the keys its request named, in
\* the order named; a key that a row held before the request is that row
RefsAre(table, tableAfter, ids, keys) ==
    /\ Len(ids) = Len(keys)
    /\ \A i \in 1..Len(ids) :
         /\ ids[i] \in CommittedRows(tableAfter)
         /\ tableAfter[ids[i]].key = keys[i]
         /\ \A j \in CommittedRows(table) : table[j].key = keys[i] => ids[i] = j

\* C3: after any sequence of creates (and deletes) there is at most one
\* Genre, Actor and Language row per name and at most one Country row per
\* upper-cased code, and a created movie references, for every name or code
\* of its request, the row of that name (the existing row when there was one).
C3_OneReferenceRowPerKey ==
    [][/\ OneRowPerKey(countries', TRUE)
       /\ OneRowPerKey(genres', FALSE)
       /\ OneRowPerKey(actors', FALSE)
       /\ OneRowPerKey(languages', FALSE)
       /\ (last'.op = "create" /\ last'.code = 201)
            => \A raw \in RefCreates :
                 create_movie(raw, MaxRefMovies)
                 => LET m == movies'[last'.id]
                    IN  /\ RefsAre(countries, countries', <<m.country>>,
                                   <<upper(raw.country)>>)
                        /\ RefsAre(genres, genres', m.genres, raw.genres)
                        /\ RefsAre(actors, actors', m.actors, raw.actors)
                        /\ RefsAre(languages, languages', m.languages, raw.languages)
      ]_vars

\* C3 witness: a second create has succeeded, the two stored movies reference
\* the one and only country row, and a stored movie lists one genre row twice
C3_Witness ==
    /\ last.op = "create" /\ last.code = 201
    /\ Cardinality(DOMAIN movies) = 2
    /\ movies[1].country = movies[2].country
    /\ Len(countries) = 1
    /\ \E id \in DOMAIN movies :
         Len(movies[id].genres) >= 2 /\ movies[id].genres[1] = movies[id].genres[2]

----------------------------------------------------------------------------
(* Claims checked under SpecConc *)

\* C6 (as claimed): when creates that introduce the same new country code or
\* genre, actor or language name interleave, no request ends in an unhandled
\* storage error (500), and no duplicate reference row results.
C6_RacingCreatesEndWithoutStorageError ==
    /\ \A p \in Procs : reqs[p].pc = "done" => reqs[p].code # 500
    /\ OneRowPerKey(countries, TRUE)
    /\ OneRowPerKey(genres, FALSE)
    /\ OneRowPerKey(actors, FALSE)
    /\ OneRowPerKey(languages, FALSE)

====
